---- MODULE Spec2Model ----
(***************************************************************************)
(* Kernel Chunker (kernel_chunker.pyw): the segmentation of one kernel     *)
(* record into sections (KernelChunker.chunk_single_kernel), the deck      *)
(* parser (KernelChunker.process_chunks) and the sequential copy           *)
(* controller (copy_next_chunk, ChunkCard.copy_kernel, clear_all).         *)
(*                                                                         *)
(* Two specifications share the module:                                    *)
(*   SegSpec  chunk_single_kernel as a pure function: Init draws the       *)
(*            record from the bounded set Kernels, the one action calls it.*)
(*   Spec     the widget as a state machine over the user's actions.       *)
(***************************************************************************)
EXTENDS Integers, Sequences, FiniteSets, TLC

(***************************************************************************)
(* JSON values, as json.loads returns them.  Every value has the same      *)
(* shape: t is the Python type, s the text of a scalar, kv the entries of  *)
(* a dict in insertion order (pairs <<key, value>>) or the items of a list *)
(* (pairs <<"", item>>).                                                   *)
(***************************************************************************)
Str(x) ==
    [t |-> "str", s |-> x, kv |-> <<>>]

Num(x) ==
    [t |-> "num", s |-> x, kv |-> <<>>]

Null ==
    [t |-> "null", s |-> "", kv |-> <<>>]

Map(pairs) ==
    [t |-> "map", s |-> "", kv |-> pairs]

List(items) ==
    [t |-> "list", s |-> "", kv |-> [i \in 1..Len(items) |-> <<"", items[i]>>]]

\* The items of a list value, as a sequence.
Items(v) ==
    [i \in 1..Len(v.kv) |-> v.kv[i][2]]

\* The keys of a dict value, in insertion order.
Keys(v) ==
    [i \in 1..Len(v.kv) |-> v.kv[i][1]]

KeySet(v) ==
    {v.kv[i][1] : i \in 1..Len(v.kv)}

\* `key in d`
Has(d, key) ==
    \E i \in 1..Len(d.kv) : d.kv[i][1] = key

\* `d[key]`, for a key that is present
Get(d, key) ==
    d.kv[CHOOSE i \in 1..Len(d.kv) : d.kv[i][1] = key][2]

\* `d.get(key, default)`
GetOr(d, key, default) ==
    IF Has(d, key) THEN Get(d, key) ELSE default

\* `d[key] = value` on the entries of a dict: a key that is present keeps its
\* place and takes the new value, a new key goes last.
DictSet(pairs, key, value) ==
    IF \E i \in 1..Len(pairs) : pairs[i][1] = key
    THEN [i \in 1..Len(pairs) |->
            IF pairs[i][1] = key THEN <<key, value>> ELSE pairs[i]]
    ELSE Append(pairs, <<key, value>>)

\* `{**pairs, **more}`: the entries of `more` set one after the other.
RECURSIVE Spread(_, _)
Spread(pairs, more) ==
    IF more = <<>> THEN pairs
    ELSE Spread(DictSet(pairs, more[1][1], more[1][2]), Tail(more))

\* `bool(v)`
Truthy(v) ==
    CASE v.t = "str"  -> v.s /= ""
      [] v.t = "num"  -> v.s /= "0"
      [] v.t = "bool" -> v.s = "true"
      [] v.t = "null" -> FALSE
      [] OTHER        -> Len(v.kv) > 0

(***************************************************************************)
(* chunk_single_kernel: the ten rules, in the order of the code.           *)
(***************************************************************************)
HeaderKeys ==
    <<"id", "title", "version", "extraction_date", "source", "deck_id",
      "kernel_count", "compression_ratio">>

DynamicsKeys ==
    <<"consent_pattern", "power_dynamic", "aftercare">>

CoreKeys ==
    <<"pattern_boundaries", "what_makes_it_work", "core_truth", "why_it_matters">>

\* Mutant: the export rule's key list without 'sigil'.
ExportKeys_NoSigil ==
    <<"replication_notes", "export_notes", "closing_image", "heat_at_close">>

ExportKeys ==
    <<"replication_notes", "export_notes", "closing_image", "heat_at_close", "sigil">>

LangMotifKeys ==
    <<"language_patterns", "motifs">>

\* for key in keys: if key in kernel: d[key] = kernel[key]
RECURSIVE Collect(_, _)
Collect(kernel, keys) ==
    IF keys = <<>> THEN <<>>
    ELSE LET rest == Collect(kernel, Tail(keys))
         IN  IF Has(kernel, keys[1])
             THEN <<<<keys[1], Get(kernel, keys[1])>>>> \o rest
             ELSE rest

\* kernel.get('id', 'unknown')
KernelId(kernel) ==
    GetOr(kernel, "id", Str("unknown"))

\* Mutant: every section takes the record's title, as the header does.
SectionDict_KernelTitle(tag, title, kernel, payload) ==
    Map(Spread(<< <<"section", Str(tag)>>, <<"title", GetOr(kernel, "title", title)>>,
                  <<"id", GetOr(kernel, "id", Str("unknown"))>> >>, payload))

\* The dict literal {'section': .., 'title': .., 'id': .., <payload>}
SectionDict(tag, title, kernel, payload) ==
    Map(Spread(<< <<"section", Str(tag)>>, <<"title", title>>,
                  <<"id", KernelId(kernel)>> >>, payload))

\* Mutant: the header is appended only for a record with a title.
HeaderRule_NeedsTitle(kernel) ==
    LET header == Collect(kernel, HeaderKeys)
    IN  IF Has(kernel, "title")
        THEN << SectionDict("header", Get(kernel, "title"), kernel,
                            << <<"data", Map(header)>> >>) >>
        ELSE <<>>

\* Rule 1: the header, its fields nested under 'data'.
HeaderRule(kernel) ==
    LET header == Collect(kernel, HeaderKeys)
    IN  IF header /= <<>>
        THEN << SectionDict("header", GetOr(kernel, "title", Str("Header")), kernel,
                            << <<"data", Map(header)>> >>) >>
        ELSE <<>>

\* Mutant: the field is nested under 'data', as in the header.
SingleFieldRule_UnderData(kernel, tag, title, key) ==
    IF Has(kernel, key)
    THEN << SectionDict(tag, Str(title), kernel, << <<"data", Get(kernel, key)>> >>) >>
    ELSE <<>>

\* Rules 2, 3, 5, 6, 9: one field, under the key of its own name.
SingleFieldRule(kernel, tag, title, key) ==
    IF Has(kernel, key)
    THEN << SectionDict(tag, Str(title), kernel, << <<key, Get(kernel, key)>> >>) >>
    ELSE <<>>

\* Mutant: the section is appended without the `if found:` test.
MultiFieldRule_AlwaysEmits(kernel, tag, title, keys) ==
    << SectionDict(tag, Str(title), kernel, Collect(kernel, keys)) >>

\* Rules 4, 7, 8, 10: the present fields, spread at the top level.
MultiFieldRule(kernel, tag, title, keys) ==
    LET found == Collect(kernel, keys)
    IN  IF found /= <<>>
        THEN << SectionDict(tag, Str(title), kernel, found) >>
        ELSE <<>>

\* Mutant: the heat signature rule runs before the emotional arc rule.
AllSections_HeatFirst(kernel) ==
    HeaderRule(kernel)
    \o SingleFieldRule(kernel, "heat_signature", "Heat Signature", "heat_signature")
    \o SingleFieldRule(kernel, "emotional_arc", "Emotional Arc", "emotional_arc")
    \o MultiFieldRule(kernel, "language_motifs", "Language & Motifs", LangMotifKeys)
    \o SingleFieldRule(kernel, "physical_anchors", "Physical Anchors", "physical_anchors")
    \o SingleFieldRule(kernel, "visual_description", "Visual Description",
                       "visual_description")
    \o MultiFieldRule(kernel, "dynamics", "Relationship Dynamics", DynamicsKeys)
    \o MultiFieldRule(kernel, "core_truth", "Core Truth & Boundaries", CoreKeys)
    \o SingleFieldRule(kernel, "cubic_attractor", "Cubic Attractor (Identity)",
                       "cubic_attractor")
    \o MultiFieldRule(kernel, "export", "Export Notes", ExportKeys)

\* The list `sections` before the return statement.
AllSections(kernel) ==
    HeaderRule(kernel)
    \o SingleFieldRule(kernel, "emotional_arc", "Emotional Arc", "emotional_arc")
    \o SingleFieldRule(kernel, "heat_signature", "Heat Signature", "heat_signature")
    \o MultiFieldRule(kernel, "language_motifs", "Language & Motifs", LangMotifKeys)
    \o SingleFieldRule(kernel, "physical_anchors", "Physical Anchors", "physical_anchors")
    \o SingleFieldRule(kernel, "visual_description", "Visual Description",
                       "visual_description")
    \o MultiFieldRule(kernel, "dynamics", "Relationship Dynamics", DynamicsKeys)
    \o MultiFieldRule(kernel, "core_truth", "Core Truth & Boundaries", CoreKeys)
    \o SingleFieldRule(kernel, "cubic_attractor", "Cubic Attractor (Identity)",
                       "cubic_attractor")
    \o MultiFieldRule(kernel, "export", "Export Notes", ExportKeys)

\* Mutant: `len(sections) > 0` for `len(sections) > 1`.
FallbackOrSections_AtLeastOne(sections, kernel) ==
    IF Len(sections) > 0 THEN sections ELSE <<kernel>>

\* return sections if len(sections) > 1 else [kernel]
FallbackOrSections(sections, kernel) ==
    IF Len(sections) > 1 THEN sections ELSE <<kernel>>

chunk_single_kernel(kernel) ==
    FallbackOrSections(AllSections(kernel), kernel)

(***************************************************************************)
(* The bounded set of input records of SegSpec.                            *)
(***************************************************************************)
\* Most fields one input record has.
MaxFields == 3

\* The 27 fields the rules read, in rule order, and one field no rule reads.
InputKeys ==
    <<"id", "title", "version", "extraction_date", "source", "deck_id",
      "kernel_count", "compression_ratio", "emotional_arc", "heat_signature",
      "language_patterns", "motifs", "physical_anchors", "visual_description",
      "consent_pattern", "power_dynamic", "aftercare", "pattern_boundaries",
      "what_makes_it_work", "core_truth", "why_it_matters", "cubic_attractor",
      "replication_notes", "export_notes", "closing_image", "heat_at_close",
      "sigil", "notes">>

\* The values the fields of an input record take.
SampleValues ==
    << Str("k1"), Map(<< <<"trust", Num("0.5")>> >>) >>

\* The strictly increasing sequences of at most n indices into InputKeys.
RECURSIVE IncSeqs(_)
IncSeqs(n) ==
    IF n = 0 THEN {<<>>}
    ELSE LET shorter == IncSeqs(n - 1)
         IN  shorter \cup
             { Append(q, j) : <<q, j>> \in
                 { <<q, j>> \in shorter \X (1..Len(InputKeys)) :
                     /\ Len(q) = n - 1
                     /\ (q /= <<>> => q[Len(q)] < j) } }

Reverse(q) ==
    [i \in 1..Len(q) |-> q[Len(q) + 1 - i]]

\* The record with the fields idx (indices into InputKeys), in that order;
\* neighbouring fields of InputKeys get different values.
RecordOf(idx, shift) ==
    Map([i \in 1..Len(idx) |->
           <<InputKeys[idx[i]], SampleValues[((idx[i] + shift) % 2) + 1]>>])

\* Every record of at most MaxFields fields, its keys in rule order or in the
\* reverse order.
Kernels ==
    { RecordOf(IF rev THEN Reverse(q) ELSE q, shift) :
        <<q, shift, rev>> \in IncSeqs(MaxFields) \X (0..1) \X BOOLEAN }

(***************************************************************************)
(* SegSpec: one call of chunk_single_kernel.                               *)
(***************************************************************************)
(***************************************************************************)
(* The widget.  Texts are what the input area and the clipboard hold.      *)
(***************************************************************************)
\* Text that is empty or whitespace only: `text.strip()` is empty.
BlankText ==
    [kind |-> "blank", doc |-> Null]

\* Text json.loads rejects with JSONDecodeError, such as `{bad json`.
MalformedText ==
    [kind |-> "malformed", doc |-> Null]

\* json.dumps(value, indent=2): the text that decodes to `value`.
json_dumps(value) ==
    [kind |-> "json", doc |-> value]

\* json.loads(text) raises JSONDecodeError.
json_loads_fails(text) ==
    text.kind /= "json"

\* json.loads(text), for a text it accepts.
json_loads(text) ==
    text.doc

\* Most records of a deck the user enters.
MaxDeck == 2

\* The items of the decks the user enters: two records, the second one with the
\* single-kernel signature, and a number.
SampleItems ==
    { Map(<< <<"id", Str("a")>> >>),
      Map(<< <<"id", Str("b")>>,
             <<"heat_signature", Map(<< <<"trust", Num("0.5")>> >>)>> >>),
      Num("1") }

\* The sequences of at most n different items of S.
RECURSIVE SeqsUpTo(_, _)
SeqsUpTo(S, n) ==
    IF n = 0 THEN {<<>>}
    ELSE {<<>>} \cup UNION { { <<x>> \o q : q \in SeqsUpTo(S \ {x}, n - 1) } : x \in S }

\* The decks the user enters: at most MaxDeck different items, in any order.
Decks ==
    SeqsUpTo(SampleItems, MaxDeck)

\* The single documents the user enters besides the decks.
OtherDocs ==
    { Map(<< <<"id", Str("k1")>>,
             <<"heat_signature", Map(<< <<"trust", Num("0.5")>> >>)>> >>),
      Map(<< <<"cubic_attractor", Str("c")>>, <<"title", Str("Solo")>>,
             <<"sigil", Str("s")>>, <<"id", Str("k2")>> >>),
      Map(<< <<"id", Str("k1")>>, <<"title", Str("Solo")>> >>),
      Map(<< <<"emotional_arc", Str("e")>>, <<"heat_signature", Str("h")>> >>),
      Map(<< <<"id", Num("7")>>, <<"emotional_arc", Str("e")>> >>),
      Map(<< <<"id", Str("k3")>>, <<"heat_signature", Str("hot")>> >>),
      Map(<< <<"kernels", List(<< Map(<< <<"id", Str("a")>> >>) >>)>>,
             <<"id", Str("k1")>>, <<"emotional_arc", Str("e")>> >>),
      Map(<< <<"kernels", Str("ab")>> >>),
      Map(<<>>),
      Num("7") }

\* Every text the user enters.
Texts ==
    {BlankText, MalformedText}
    \cup { json_dumps(List(q)) : q \in Decks }
    \cup { json_dumps(Map(<< <<"kernels", List(q)>> >>)) : q \in Decks }
    \cup { json_dumps(d) : d \in OtherDocs }

\* The test of the single-kernel branch (line 748).
IsSingleKernel(data) ==
    /\ Has(data, "id")
    /\ (Has(data, "emotional_arc") \/ Has(data, "heat_signature")
        \/ Has(data, "cubic_attractor"))

\* An early return of process_chunks with this status.
Rejected(status) ==
    [ok |-> FALSE, status |-> status, kernels |-> Null, is_sectioned |-> FALSE]

\* The single-kernel branch: kernels = self.chunk_single_kernel(data).
Sectioned(data) ==
    LET sections == chunk_single_kernel(data)
    IN  [ok |-> TRUE, status |-> "", kernels |-> List(sections),
         is_sectioned |-> Len(sections) > 1]

\* Mutant: the single-kernel test comes before the test for `kernels`.
Extract_SignatureFirst(data) ==
    IF data.t = "map"
    THEN IF IsSingleKernel(data) THEN Sectioned(data)
         ELSE IF Has(data, "kernels")
         THEN [ok |-> TRUE, status |-> "", kernels |-> Get(data, "kernels"),
               is_sectioned |-> FALSE]
         ELSE Rejected("No kernels found in JSON")
    ELSE IF data.t = "list"
    THEN [ok |-> TRUE, status |-> "", kernels |-> data, is_sectioned |-> FALSE]
    ELSE Rejected("Unexpected JSON format")

\* Mutant: a mapping without `kernels` is taken as a single kernel whenever it
\* has an id.
Extract_IdOnly(data) ==
    IF data.t = "map"
    THEN IF Has(data, "kernels")
         THEN [ok |-> TRUE, status |-> "", kernels |-> Get(data, "kernels"),
               is_sectioned |-> FALSE]
         ELSE IF Has(data, "id") THEN Sectioned(data)
         ELSE Rejected("No kernels found in JSON")
    ELSE IF data.t = "list"
    THEN [ok |-> TRUE, status |-> "", kernels |-> data, is_sectioned |-> FALSE]
    ELSE Rejected("Unexpected JSON format")

\* "Extract kernels" (lines 742-759): the value of `kernels` for the decoded
\* document, or the early return.
Extract(data) ==
    IF data.t = "map"
    THEN IF Has(data, "kernels")
         THEN [ok |-> TRUE, status |-> "", kernels |-> Get(data, "kernels"),
               is_sectioned |-> FALSE]
         ELSE IF IsSingleKernel(data) THEN Sectioned(data)
         ELSE Rejected("No kernels found in JSON")
    ELSE IF data.t = "list"
    THEN [ok |-> TRUE, status |-> "", kernels |-> data, is_sectioned |-> FALSE]
    ELSE Rejected("Unexpected JSON format")

\* Mutant: the test `if not kernels` (line 761) is missing.
Parse_EmptyAccepted(text) ==
    IF text.kind = "blank"
    THEN Rejected("No input - paste or drop a kernel deck")
    ELSE IF json_loads_fails(text)
    THEN Rejected("Invalid JSON")
    ELSE Extract(json_loads(text))

\* What process_chunks decides before it touches the chunk state: the status
\* of an early return, or the value it will store in self.chunks.
Parse(text) ==
    IF text.kind = "blank"
    THEN Rejected("No input - paste or drop a kernel deck")
    ELSE IF json_loads_fails(text)
    THEN Rejected("Invalid JSON")
    ELSE LET found == Extract(json_loads(text))
         IN  IF found.ok /\ ~ Truthy(found.kernels)
             THEN Rejected("No kernels found")
             ELSE found

\* ChunkCard.__init__ returns: init_ui raises nothing for this chunk.  The
\* strings of the model are shorter than 40 characters, so the two truncation
\* branches (len > 50, len > 40) are not taken.
CardOk(kernel_data) ==
    /\ kernel_data.t = "map"
    /\ GetOr(kernel_data, "title", Str("Kernel")).t \in {"str", "list", "map"}
    /\ LET section_type == GetOr(kernel_data, "section", Null)
       IN  IF Truthy(section_type)
           THEN section_type.t \notin {"list", "map"}
           ELSE GetOr(kernel_data, "id", Str("unknown")).t \in {"str", "list", "map"}
    /\ LET heat == GetOr(kernel_data, "heat_signature", Map(<<>>))
       IN  Truthy(heat) =>
             /\ heat.t = "map"
             /\ \A key \in {"tenderness", "trust", "erotic_charge"} :
                   GetOr(heat, key, Num("0")).t \in {"num", "bool"}

\* ChunkCard(chunk_num, kernel_data)
ChunkCard(chunk_num, kernel_data) ==
    [chunk_num |-> chunk_num, kernel_data |-> kernel_data, is_copied |-> FALSE]

\* What `for i, kernel in enumerate(kernels, 1)` iterates over: the items of a
\* list; nothing is reached for any other value (a str or a dict yields str
\* items, which ChunkCard rejects, and a number is not iterable).
Iterable(kernels) ==
    IF kernels.t = "list" THEN Items(kernels) ELSE <<>>

\* The loop raises: kernels is no list, or ChunkCard raises for an item.
CardsRaise(kernels) ==
    \/ kernels.t /= "list"
    \/ \E i \in 1..Len(Iterable(kernels)) : ~ CardOk(Iterable(kernels)[i])

\* The cards in the layout when the loop ends or raises.
RECURSIVE CreateCards(_, _)
CreateCards(items, n) ==
    IF n > Len(items) \/ ~ CardOk(items[n]) THEN <<>>
    ELSE <<ChunkCard(n, items[n])>> \o CreateCards(items, n + 1)

\* len(self.chunks)
NumChunks(c) ==
    Len(c.kv)

\* update_copy_all_button: the text of the button for these chunks and cursor.
ButtonText(c, index, old) ==
    IF Truthy(c)
    THEN IF NumChunks(c) - index <= 0
         THEN [label |-> "START OVER", i |-> 0, n |-> 0]
         ELSE [label |-> "COPY NEXT", i |-> index + 1, n |-> NumChunks(c)]
    ELSE old

\* Most sequential copies counted since the last parse.
MaxPresses == 5

\* Mutant: clear_chunks is not called; the old cards stay in the layout.
clear_chunks_Kept(cs) ==
    cs

\* clear_chunks (lines 783-788): the cards left in the layout.
clear_chunks(cs) ==
    <<>>

\* The contents of the files the user picks or drops.
FileTexts ==
    { MalformedText, json_dumps(List(<< Map(<< <<"id", Str("a")>> >>) >>)) }

\* A file on disk: open() and read() succeed and give its content, or raise.
ReadableFile(content) ==
    [local |-> TRUE, readable |-> TRUE, content |-> content]

UnreadableFile ==
    [local |-> TRUE, readable |-> FALSE, content |-> BlankText]

\* A dropped URL that is no local file: url.toLocalFile() is empty.
RemoteUrl ==
    [local |-> FALSE, readable |-> FALSE, content |-> BlankText]

\* What the file dialog of load_file returns: no path (cancelled), or a file.
FileChoices ==
    { <<>>, <<UnreadableFile>> } \cup { <<ReadableFile(t)>> : t \in FileTexts }

\* The body of `if file_path:` in load_file and dropEvent (lines 579-588 and
\* 603-610): the input text and the status after it.
ReadInto(file, text, status) ==
    IF file.readable
    THEN [loaded |-> TRUE, text |-> file.content, status |-> [msg |-> "Loaded", n |-> 0]]
    ELSE [loaded |-> FALSE, text |-> text, status |-> [msg |-> "Error", n |-> 0]]

\* The loop over mime.urls() of dropEvent (lines 577-588): it returns at the
\* first local file that is read, and goes on after a failure.
RECURSIVE DropUrls(_, _, _)
DropUrls(urls, text, status) ==
    IF urls = <<>> THEN [text |-> text, status |-> status]
    ELSE IF ~ Head(urls).local THEN DropUrls(Tail(urls), text, status)
    ELSE LET r == ReadInto(Head(urls), text, status)
         IN  IF r.loaded THEN [text |-> r.text, status |-> r.status]
             ELSE DropUrls(Tail(urls), r.text, r.status)

\* The mime data the user drops on the window: URLs, a text, or neither.
Drops ==
    { [hasUrls |-> TRUE, urls |-> u, hasText |-> FALSE, text |-> BlankText] :
        u \in { <<RemoteUrl>>, <<UnreadableFile>>,
                <<ReadableFile(MalformedText)>>,
                <<UnreadableFile, ReadableFile(MalformedText)>>,
                <<ReadableFile(MalformedText), UnreadableFile>> } }
    \cup { [hasUrls |-> FALSE, urls |-> <<>>, hasText |-> TRUE, text |-> t] :
             t \in FileTexts }
    \cup { [hasUrls |-> FALSE, urls |-> <<>>, hasText |-> FALSE, text |-> BlankText] }

\* Most delayed callbacks (QTimer.singleShot) pending for one card.
MaxTimers == 1

\* The texts entered while the presentation of the cards is followed.
StyleTexts ==
    { BlankText,
      json_dumps(List(<< Map(<< <<"id", Str("a")>> >>),
                         Map(<< <<"id", Str("b")>>,
                                <<"heat_signature",
                                  Map(<< <<"trust", Num("0.5")>> >>)>> >>) >>)),
      json_dumps(Map(<< <<"id", Str("k1")>>,
                        <<"heat_signature", Map(<< <<"trust", Num("0.5")>> >>)>> >>)) }

VARIABLES
    kernel,               \* the argument of chunk_single_kernel (line 612)
    result,               \* the list chunk_single_kernel returns (line 727)
    pc,                   \* "call", "returned"; "idle" under Spec
    drop_zone,            \* the text of the input area (self.drop_zone)
    chunks,               \* self.chunks (line 237)
    current_chunk_index,  \* self.current_chunk_index (line 238)
    cards,                \* the ChunkCard widgets of chunks_layout, in order
    clipboard,            \* the text of the system clipboard
    status_label,         \* the text of self.status_label; n is the count in it
    copy_all_btn,         \* self.copy_all_btn: enabled, and its text
    alive,                \* the process runs (no unhandled exception yet)
    presses,              \* history: copy_next_chunk calls since the last parse
    copy_log,             \* history: the clipboard writes of those calls
    card_style,           \* the style sheet of each card: default, flash, grey
    timers                \* the pending set_copied_style callbacks of each card

segvars == <<kernel, result, pc>>

guivars == <<drop_zone, chunks, current_chunk_index, cards, clipboard, status_label,
             copy_all_btn, alive, presses, copy_log>>

\* The presentation of the cards.  No handler reads it.
stylevars == <<card_style, timers>>

vars == <<kernel, result, pc, drop_zone, chunks, current_chunk_index, cards,
          clipboard, status_label, copy_all_btn, alive, presses, copy_log,
          card_style, timers>>

\* KernelChunker.__init__ and init_ui.
GuiInit ==
    /\ drop_zone = BlankText
    /\ chunks = List(<<>>)
    /\ current_chunk_index = 0
    /\ cards = <<>>
    /\ clipboard = BlankText
    /\ status_label = [msg |-> "Ready - Drop or paste a kernel deck", n |-> 0]
    /\ copy_all_btn = [enabled |-> FALSE,
                       text |-> [label |-> "COPY ALL (Sequentially)", i |-> 0, n |-> 0]]
    /\ alive = TRUE
    /\ presses = 0
    /\ copy_log = <<>>
    /\ card_style = <<>>
    /\ timers = <<>>

SegInit ==
    /\ kernel \in Kernels
    /\ result = <<>>
    /\ pc = "call"
    /\ GuiInit

Segment ==
    /\ pc = "call"
    /\ result' = chunk_single_kernel(kernel)
    /\ pc' = "returned"
    /\ UNCHANGED kernel
    /\ UNCHANGED guivars
    /\ UNCHANGED stylevars

SegNext ==
    Segment

SegSpec ==
    SegInit /\ [][SegNext]_vars

(***************************************************************************)
(* The handlers of the widget.  Each handler is written in two parts: what *)
(* it does to the state of the program, and what it does to the            *)
(* presentation of the cards (their style sheet and the delayed callback   *)
(* that greys a card out).  No handler reads the presentation.  Spec is    *)
(* the widget with the presentation hidden; StyleSpec is the widget with   *)
(* it, on fewer input texts.                                               *)
(***************************************************************************)
Init ==
    /\ kernel = Map(<<>>)
    /\ result = <<>>
    /\ pc = "idle"
    /\ GuiInit

\* The input area is set to this text.
SetText(text) ==
    /\ alive
    /\ drop_zone' = text
    /\ UNCHANGED <<chunks, current_chunk_index, cards, clipboard, status_label,
                   copy_all_btn, alive, presses, copy_log>>
    /\ UNCHANGED segvars

\* The user types or pastes a text into the input area.
EditText ==
    \E text \in Texts : SetText(text)

\* LOAD: load_file.  The dialog is cancelled, or the chosen file is read into
\* the input area, or reading it raises and the error is shown.
load_file_of(choice) ==
    /\ alive
    /\ IF choice = <<>>
       THEN UNCHANGED <<drop_zone, status_label>>
       ELSE LET r == ReadInto(choice[1], drop_zone, status_label)
            IN  /\ drop_zone' = r.text
                /\ status_label' = r.status
    /\ UNCHANGED <<chunks, current_chunk_index, cards, clipboard, copy_all_btn, alive,
                   presses, copy_log>>
    /\ UNCHANGED segvars

load_file ==
    \E choice \in FileChoices : load_file_of(choice)

\* dropEvent: the user drops files or a text on the window.
dropEvent_of(mime) ==
    /\ alive
    /\ IF mime.hasUrls
       THEN LET r == DropUrls(mime.urls, drop_zone, status_label)
            IN  /\ drop_zone' = r.text
                /\ status_label' = r.status
       ELSE IF mime.hasText
       THEN /\ drop_zone' = mime.text
            /\ UNCHANGED status_label
       ELSE UNCHANGED <<drop_zone, status_label>>
    /\ UNCHANGED <<chunks, current_chunk_index, cards, clipboard, copy_all_btn, alive,
                   presses, copy_log>>
    /\ UNCHANGED segvars

dropEvent ==
    \E mime \in Drops : dropEvent_of(mime)

\* The status of a successful parse.
FoundStatus(is_sectioned, n) ==
    IF is_sectioned
    THEN [msg |-> "Split into N sections - copy sequentially for best results", n |-> n]
    ELSE [msg |-> "Found N kernels - click COPY on each or use sequential copy", n |-> n]

\* CHUNK: process_chunks, with clear_chunks and update_copy_all_button.  An
\* exception raised while the cards are created leaves the slot unhandled:
\* PyQt then ends the process (alive becomes FALSE) with the state as it was
\* when the exception was raised.
process_chunks ==
    /\ alive
    /\ LET p == Parse(drop_zone)
       IN  IF ~ p.ok
           THEN /\ status_label' = [msg |-> p.status, n |-> 0]
                /\ UNCHANGED <<drop_zone, chunks, current_chunk_index, cards, clipboard,
                               copy_all_btn, alive, presses, copy_log>>
           ELSE /\ chunks' = p.kernels
                /\ current_chunk_index' = 0
                /\ cards' = clear_chunks(cards) \o CreateCards(Iterable(p.kernels), 1)
                /\ presses' = 0
                /\ copy_log' = <<>>
                /\ IF CardsRaise(p.kernels)
                   THEN /\ alive' = FALSE
                        /\ UNCHANGED <<status_label, copy_all_btn>>
                   ELSE /\ alive' = TRUE
                        /\ status_label' = FoundStatus(p.is_sectioned, NumChunks(p.kernels))
                        /\ copy_all_btn' =
                             [enabled |-> TRUE,
                              text |-> ButtonText(p.kernels, 0, copy_all_btn.text)]
                /\ UNCHANGED <<drop_zone, clipboard>>
    /\ UNCHANGED segvars

\* Mutant: clear_all forgets `self.chunks = []`.
ClearedChunks_Kept ==
    chunks

\* `self.chunks = []` of clear_all (line 794).
ClearedChunks ==
    List(<<>>)

\* CLEAR: clear_all, with clear_chunks.
clear_all ==
    /\ alive
    /\ drop_zone' = BlankText
    /\ cards' = clear_chunks(cards)
    /\ chunks' = ClearedChunks
    /\ current_chunk_index' = 0
    /\ status_label' = [msg |-> "Cleared - ready for new input", n |-> 0]
    /\ copy_all_btn' = [copy_all_btn EXCEPT !.enabled = FALSE]
    /\ presses' = 0
    /\ copy_log' = <<>>
    /\ UNCHANGED <<clipboard, alive>>
    /\ UNCHANGED segvars

\* Mutant: copying a card marks every card up to it.
MarkCopied_UpTo(cs, i) ==
    [j \in 1..Len(cs) |-> IF j <= i THEN [cs[j] EXCEPT !.is_copied = TRUE] ELSE cs[j]]

\* ChunkCard.copy_kernel on the card at position i of the layout: the cards
\* after it.
MarkCopied(cs, i) ==
    [cs EXCEPT ![i].is_copied = TRUE]

\* Mutant: the loop of reset_all_cards stops after the first card, as the loop
\* of grey_out_card does.
reset_all_cards_FirstOnly(cs) ==
    [i \in 1..Len(cs) |-> IF i = 1 THEN [cs[i] EXCEPT !.is_copied = FALSE] ELSE cs[i]]

\* ChunkCard.reset_style on every card: reset_all_cards.
reset_all_cards(cs) ==
    [i \in 1..Len(cs) |-> [cs[i] EXCEPT !.is_copied = FALSE]]

\* The clipboard after the Ready branch of copy_next_chunk: the chunk at the
\* cursor is set first, then grey_out_card runs copy_kernel of the card at the
\* cursor (if the layout has one), which sets its own kernel_data.
ClipboardAfterCopyNext(c, cs, index) ==
    IF index + 1 <= Len(cs)
    THEN json_dumps(cs[index + 1].kernel_data)
    ELSE json_dumps(Items(c)[index + 1])

\* Mutant: the cursor skips a chunk.
Advance_ByTwo(index) ==
    index + 2

\* Mutant: the cursor is not incremented.
Advance_Forgotten(index) ==
    index

\* The cursor after the Ready branch of copy_next_chunk.
Advance(index) ==
    index + 1

\* COPY NEXT / START OVER: copy_next_chunk, with grey_out_card,
\* reset_all_cards and update_copy_all_button.  The button is disabled until a
\* parse succeeds and after CLEAR.
copy_next_chunk ==
    /\ alive
    /\ copy_all_btn.enabled
    /\ IF current_chunk_index >= NumChunks(chunks)
       THEN /\ current_chunk_index' = 0
            /\ cards' = reset_all_cards(cards)
            /\ copy_all_btn' = [copy_all_btn EXCEPT
                                  !.text = ButtonText(chunks, 0, copy_all_btn.text)]
            /\ status_label' = [msg |-> "Reset - ready to copy again", n |-> 0]
            /\ UNCHANGED <<clipboard, copy_log>>
       ELSE /\ Truthy(chunks)
            /\ clipboard' = ClipboardAfterCopyNext(chunks, cards, current_chunk_index)
            /\ cards' = IF current_chunk_index + 1 <= Len(cards)
                        THEN MarkCopied(cards, current_chunk_index + 1)
                        ELSE cards
            /\ current_chunk_index' = Advance(current_chunk_index)
            /\ copy_all_btn' = [copy_all_btn EXCEPT
                                  !.text = ButtonText(chunks, current_chunk_index',
                                                      copy_all_btn.text)]
            /\ copy_log' = IF presses < MaxPresses
                           THEN Append(copy_log, [index |-> current_chunk_index,
                                                  text |-> clipboard'])
                           ELSE copy_log
            /\ UNCHANGED status_label
    /\ presses' = IF presses < MaxPresses THEN presses + 1 ELSE presses
    /\ UNCHANGED <<drop_zone, chunks, alive>>
    /\ UNCHANGED segvars

\* ChunkCard.copy_kernel of the card at position i.
copy_kernel_at(i) ==
    /\ alive
    /\ clipboard' = json_dumps(cards[i].kernel_data)
    /\ cards' = MarkCopied(cards, i)
    /\ UNCHANGED <<drop_zone, chunks, current_chunk_index, status_label, copy_all_btn,
                   alive, presses, copy_log>>
    /\ UNCHANGED segvars

\* COPY on one card: ChunkCard.copy_kernel.
copy_kernel ==
    \E i \in 1..Len(cards) : copy_kernel_at(i)

\* The presentation is left out.
Hidden ==
    UNCHANGED stylevars

Next ==
    \/ EditText /\ Hidden
    \/ load_file /\ Hidden
    \/ dropEvent /\ Hidden
    \/ process_chunks /\ Hidden
    \/ clear_all /\ Hidden
    \/ copy_next_chunk /\ Hidden
    \/ copy_kernel /\ Hidden

Spec ==
    Init /\ [][Next]_vars

(***************************************************************************)
(* StyleSpec: the handlers with the presentation of the cards.             *)
(***************************************************************************)
\* The cards process_chunks creates: ChunkCard.init_ui sets the default style
\* (lines 55-61) and no callback is pending.  The cards clear_chunks removed
\* are deleted (deleteLater), and their pending callbacks with them.
NewCardStyles ==
    IF Parse(drop_zone).ok
    THEN /\ card_style' = [i \in 1..Len(cards') |-> "default"]
         /\ timers' = [i \in 1..Len(cards') |-> 0]
    ELSE UNCHANGED stylevars

\* clear_chunks in clear_all: no card is left.
NoCardStyles ==
    /\ card_style' = <<>>
    /\ timers' = <<>>

\* The style part of ChunkCard.copy_kernel (lines 153-163): the green flash,
\* and QTimer.singleShot(500, self.set_copied_style).
FlashStyle(i) ==
    /\ timers[i] < MaxTimers
    /\ card_style' = [card_style EXCEPT ![i] = "flash"]
    /\ timers' = [timers EXCEPT ![i] = @ + 1]

\* The style part of ChunkCard.reset_style (lines 203-229) on every card.  The
\* pending callbacks are not cancelled.
DefaultStyles ==
    /\ card_style' = [i \in 1..Len(card_style) |-> "default"]
    /\ UNCHANGED timers

\* The style part of copy_next_chunk: reset_all_cards when the cursor is at the
\* end, else copy_kernel of the card at the cursor.
CopyNextStyles ==
    IF current_chunk_index >= NumChunks(chunks)
    THEN DefaultStyles
    ELSE IF current_chunk_index + 1 <= Len(cards)
    THEN FlashStyle(current_chunk_index + 1)
    ELSE UNCHANGED stylevars

\* A delayed callback fires: ChunkCard.set_copied_style greys the card out.
set_copied_style ==
    /\ alive
    /\ \E i \in 1..Len(cards) :
          /\ timers[i] > 0
          /\ card_style' = [card_style EXCEPT ![i] = "grey"]
          /\ timers' = [timers EXCEPT ![i] = @ - 1]
    /\ UNCHANGED guivars
    /\ UNCHANGED segvars

StyleNext ==
    \/ (\E text \in StyleTexts : SetText(text)) /\ Hidden
    \/ load_file /\ Hidden
    \/ dropEvent /\ Hidden
    \/ process_chunks /\ NewCardStyles
    \/ clear_all /\ NoCardStyles
    \/ copy_next_chunk /\ CopyNextStyles
    \/ (\E i \in 1..Len(cards) : copy_kernel_at(i) /\ FlashStyle(i))
    \/ set_copied_style

StyleSpec ==
    Init /\ [][StyleNext]_vars

(***************************************************************************)
(* The rule table of the specification (section 4.2), against which the    *)
(* result of chunk_single_kernel is read.                                  *)
(***************************************************************************)
RuleTable ==
    << [tag |-> "header", mode |-> "data",
        fields |-> {"id", "title", "version", "extraction_date", "source",
                    "deck_id", "kernel_count", "compression_ratio"}],
       [tag |-> "emotional_arc", mode |-> "single", fields |-> {"emotional_arc"}],
       [tag |-> "heat_signature", mode |-> "single", fields |-> {"heat_signature"}],
       [tag |-> "language_motifs", mode |-> "spread",
        fields |-> {"language_patterns", "motifs"}],
       [tag |-> "physical_anchors", mode |-> "single", fields |-> {"physical_anchors"}],
       [tag |-> "visual_description", mode |-> "single",
        fields |-> {"visual_description"}],
       [tag |-> "dynamics", mode |-> "spread",
        fields |-> {"consent_pattern", "power_dynamic", "aftercare"}],
       [tag |-> "core_truth", mode |-> "spread",
        fields |-> {"pattern_boundaries", "what_makes_it_work", "core_truth",
                    "why_it_matters"}],
       [tag |-> "cubic_attractor", mode |-> "single", fields |-> {"cubic_attractor"}],
       [tag |-> "export", mode |-> "spread",
        fields |-> {"replication_notes", "export_notes", "closing_image",
                    "heat_at_close", "sigil"}] >>

Rules ==
    1..Len(RuleTable)

\* The fields of the glossary's Known Kernel Fields.
KnownFields ==
    UNION {RuleTable[r].fields : r \in Rules}

\* The rules of which the record has at least one field.
Triggered(k) ==
    {r \in Rules : RuleTable[r].fields \cap KeySet(k) /= {}}

\* The call has returned the section list, not the record itself.
Segmented ==
    pc = "returned" /\ result /= <<kernel>>

\* The text of the 'section' entry of a returned section.
TagOf(sec) ==
    Get(sec, "section").s

\* The rules whose tag a returned section carries.
RuleOfTag(tag) ==
    {r \in Rules : RuleTable[r].tag = tag}

\* The keys of a section besides section, title and id.
PayloadKeys(sec) ==
    KeySet(sec) \ {"section", "title", "id"}

\* The fields of the record a section holds: the keys of `data` in the header
\* section, the keys of the payload elsewhere.
Captured(sec) ==
    IF Has(sec, "section") /\ TagOf(sec) = "header" /\ Has(sec, "data")
    THEN KeySet(Get(sec, "data"))
    ELSE PayloadKeys(sec)

\* The rule a section belongs to by what it holds: the rule of the fields it
\* captured.
RulesOfPayload(sec) ==
    {r \in Rules : Captured(sec) /= {} /\ Captured(sec) \subseteq RuleTable[r].fields}

\* No key occurs twice in a dict.
UniqueKeys(d) ==
    \A i, j \in 1..Len(d.kv) : d.kv[i][1] = d.kv[j][1] => i = j

\* C1: whenever chunk_single_kernel returns sections, their tags are rule tags
\* and appear in the fixed order of the ten rules, a subsequence of header,
\* emotional_arc, heat_signature, language_motifs, physical_anchors,
\* visual_description, dynamics, core_truth, cubic_attractor, export, whatever
\* the order of the keys of the input record.
C1_FixedOrder ==
    Segmented =>
        /\ \A i \in 1..Len(result) :
              Has(result[i], "section") /\ RuleOfTag(TagOf(result[i])) /= {}
        /\ \A i, j \in 1..Len(result) :
              i < j => \E r, q \in Rules :
                          /\ r < q
                          /\ RuleTable[r].tag = TagOf(result[i])
                          /\ RuleTable[q].tag = TagOf(result[j])

\* A record whose keys come in the reverse of the rule order has been segmented.
C1_Witness ==
    /\ Segmented
    /\ Keys(kernel) = <<"sigil", "heat_signature", "id">>
    /\ Len(result) = 3

\* C2: a rule's tag is among the returned sections exactly when the record has
\* one of the rule's trigger fields, and no tag is returned twice.
C2_TriggerIff ==
    Segmented =>
        /\ \A r \in Rules :
              (\E i \in 1..Len(result) : TagOf(result[i]) = RuleTable[r].tag)
                  <=> (r \in Triggered(kernel))
        /\ \A i, j \in 1..Len(result) :
              TagOf(result[i]) = TagOf(result[j]) => i = j

\* Segmentation of a record with fields of two rules and none of the other eight.
C2_Witness ==
    /\ Segmented
    /\ Triggered(kernel) = {4, 8}
    /\ Len(result) = 2

\* C3: a record with fields of fewer than 2 rules comes back as the one-element
\* list holding the record itself; a record with fields of 2 or more rules comes
\* back as its sections, one per triggered rule, none of them the record.
C3_Fallback ==
    pc = "returned" =>
        IF Cardinality(Triggered(kernel)) < 2
        THEN result = <<kernel>>
        ELSE /\ Len(result) = Cardinality(Triggered(kernel))
             /\ \A i \in 1..Len(result) :
                   result[i] /= kernel /\ Has(result[i], "section")

\* A record with fields of exactly one rule came back unsegmented.
C3_Witness ==
    /\ pc = "returned"
    /\ Cardinality(Triggered(kernel)) = 1
    /\ Len(kernel.kv) = 2
    /\ result = <<kernel>>

\* The label of each tag.
FixedLabel(tag) ==
    CASE tag = "header"             -> "Header"
      [] tag = "emotional_arc"      -> "Emotional Arc"
      [] tag = "heat_signature"     -> "Heat Signature"
      [] tag = "language_motifs"    -> "Language & Motifs"
      [] tag = "physical_anchors"   -> "Physical Anchors"
      [] tag = "visual_description" -> "Visual Description"
      [] tag = "dynamics"           -> "Relationship Dynamics"
      [] tag = "core_truth"         -> "Core Truth & Boundaries"
      [] tag = "cubic_attractor"    -> "Cubic Attractor (Identity)"
      [] tag = "export"             -> "Export Notes"
      [] OTHER                      -> ""

\* A section carries section, title and id once each, `section` is the tag of
\* the rule whose fields the section holds, and `id` is the record's id, or
\* "unknown" for a record without one.
SectionAndIdKept(sec) ==
    /\ Has(sec, "section") /\ Has(sec, "title") /\ Has(sec, "id")
    /\ UniqueKeys(sec)
    /\ RulesOfPayload(sec) /= {}
    /\ \A r \in RulesOfPayload(sec) : Get(sec, "section") = Str(RuleTable[r].tag)
    /\ Get(sec, "id") = (IF Has(kernel, "id") THEN Get(kernel, "id") ELSE Str("unknown"))

\* C4 as stated: every returned section carries its rule's tag, the record's id
\* (or "unknown") and a title that is the fixed label of its tag.
C4_Original ==
    Segmented =>
        \A i \in 1..Len(result) :
            /\ SectionAndIdKept(result[i])
            /\ Get(result[i], "title") = Str(FixedLabel(TagOf(result[i])))

\* C4, amended: every returned section carries its rule's tag and the record's
\* id (or "unknown"); the title is the fixed label of the tag in every section
\* but the header, whose title is the record's own `title` when the record has
\* one and "Header" otherwise; no spread field overwrites the three keys.
C4_SectionKeys ==
    Segmented =>
        \A i \in 1..Len(result) :
            /\ SectionAndIdKept(result[i])
            /\ Get(result[i], "title") =
                  (IF TagOf(result[i]) = "header" /\ Has(kernel, "title")
                   THEN Get(kernel, "title")
                   ELSE Str(FixedLabel(TagOf(result[i]))))

\* A record with a title and a spread field has been segmented: the header
\* carries the record's title, the multi-field section its fixed label.
C4_Witness ==
    /\ Segmented
    /\ KeySet(kernel) = {"id", "title", "core_truth"}
    /\ Get(kernel, "title") /= Str("Header")
    /\ Len(result) = 2
    /\ Get(result[1], "title") = Get(kernel, "title")
    /\ Get(result[2], "title") = Str("Core Truth & Boundaries")

\* C5: every returned section holds the fields of its rule that the record has,
\* with the record's values: the header under `data`, a single-field section
\* under the field's own name, a multi-field section as top-level keys; and the
\* record {id: k1, heat_signature: {trust: 0.5}} gives exactly the header
\* section with data {id: k1} and the heat_signature section.
C5_Placement ==
    /\ Segmented =>
          \A i \in 1..Len(result) :
             \A r \in RuleOfTag(TagOf(result[i])) :
                LET sec     == result[i]
                    present == RuleTable[r].fields \cap KeySet(kernel)
                IN  IF RuleTable[r].mode = "data"
                    THEN /\ PayloadKeys(sec) = {"data"}
                         /\ Get(sec, "data").t = "map"
                         /\ UniqueKeys(Get(sec, "data"))
                         /\ KeySet(Get(sec, "data")) = present
                         /\ \A f \in present :
                               Get(Get(sec, "data"), f) = Get(kernel, f)
                    ELSE /\ PayloadKeys(sec) = present
                         /\ \A f \in present : Get(sec, f) = Get(kernel, f)
    /\ (pc = "returned"
        /\ kernel = Map(<< <<"id", Str("k1")>>,
                           <<"heat_signature", Map(<< <<"trust", Num("0.5")>> >>)>> >>))
       => result =
            << Map(<< <<"section", Str("header")>>, <<"title", Str("Header")>>,
                      <<"id", Str("k1")>>,
                      <<"data", Map(<< <<"id", Str("k1")>> >>)>> >>),
               Map(<< <<"section", Str("heat_signature")>>,
                      <<"title", Str("Heat Signature")>>, <<"id", Str("k1")>>,
                      <<"heat_signature", Map(<< <<"trust", Num("0.5")>> >>)>> >>) >>

\* The scenario's record {id: k1, heat_signature: {trust: 0.5}} has been
\* segmented into two sections.
C5_Witness ==
    /\ pc = "returned"
    /\ kernel = Map(<< <<"id", Str("k1")>>,
                       <<"heat_signature", Map(<< <<"trust", Num("0.5")>> >>)>> >>)
    /\ Len(result) = 2

\* No returned section holds a field the record does not have, and no field is
\* held by two sections.
CapturedOnce ==
    /\ \A i \in 1..Len(result) : Captured(result[i]) \subseteq KeySet(kernel)
    /\ \A i, j \in 1..Len(result) :
          i /= j => Captured(result[i]) \cap Captured(result[j]) = {}

\* C6 as stated: when the record is segmented, every field of the record is
\* held by exactly one section and no section holds a field the record lacks.
C6_Original ==
    Segmented =>
        /\ CapturedOnce
        /\ \A f \in KeySet(kernel) : \E i \in 1..Len(result) : f \in Captured(result[i])

\* C6, amended: when the record is segmented, every field of the record that is
\* one of the 27 known kernel fields is held by exactly one section, a field
\* outside that vocabulary is held by no section, and no section holds a field
\* the record lacks.
C6_KnownFieldsPartition ==
    Segmented =>
        /\ CapturedOnce
        /\ \A f \in KeySet(kernel) :
              (f \in KnownFields) <=> (\E i \in 1..Len(result) : f \in Captured(result[i]))

\* A segmented record with a known field of the last rule and a field outside
\* the vocabulary.
C6_Witness ==
    /\ Segmented
    /\ KeySet(kernel) = {"id", "sigil", "notes"}
    /\ Len(result) = 2
    /\ Captured(result[2]) = {"sigil"}

\* The record has emotional_arc and heat_signature and no other known field
\* besides (possibly) id.
ArcAndHeatOnly ==
    /\ {"emotional_arc", "heat_signature"} \subseteq KeySet(kernel)
    /\ KeySet(kernel) \cap KnownFields \subseteq {"id", "emotional_arc", "heat_signature"}

\* The tags of the returned list.
ResultTags ==
    [i \in 1..Len(result) |-> IF Has(result[i], "section") THEN TagOf(result[i]) ELSE ""]

\* C7 as stated: such a record yields exactly the 2 sections emotional_arc,
\* heat_signature.
C7_Original ==
    (pc = "returned" /\ ArcAndHeatOnly) =>
        ResultTags = <<"emotional_arc", "heat_signature">>

\* C7, amended: such a record yields the sections emotional_arc, heat_signature
\* in that order, exactly these 2 when the record has no id, and preceded by a
\* header section (3 sections) when the record has an id.
C7_ArcHeat ==
    (pc = "returned" /\ ArcAndHeatOnly) =>
        ResultTags = (IF Has(kernel, "id")
                      THEN <<"header", "emotional_arc", "heat_signature">>
                      ELSE <<"emotional_arc", "heat_signature">>)

\* The record with id, emotional_arc and heat_signature, heat first, has been
\* segmented into three sections.
C7_Witness ==
    /\ pc = "returned"
    /\ Keys(kernel) = <<"heat_signature", "emotional_arc", "id">>
    /\ Len(result) = 3

\* The list of records a text holds as a deck: the value of `kernels` of a
\* mapping that has the key, or the document itself when it is a list.
DeckOf(text) ==
    IF text.kind /= "json" THEN Null
    ELSE IF text.doc.t = "map" /\ Has(text.doc, "kernels") THEN Get(text.doc, "kernels")
    ELSE IF text.doc.t = "list" THEN text.doc
    ELSE Null

\* The text decodes to a mapping without the key `kernels`.
MappingWithoutKernels(text) ==
    text.kind = "json" /\ text.doc.t = "map" /\ ~ Has(text.doc, "kernels")

\* The single-kernel signature: id and one of the three fields.
HasSignature(doc) ==
    /\ "id" \in KeySet(doc)
    /\ KeySet(doc) \cap {"emotional_arc", "heat_signature", "cubic_attractor"} /= {}

\* C8: a process_chunks that succeeds on a text holding a non-empty list of
\* records (under `kernels`, or as the document itself) makes the chunk
\* sequence that list: same length, same order, every record unmodified and
\* none segmented, also when a record or the mapping itself has the
\* single-kernel signature.
C8_DeckVerbatim ==
    [][ (process_chunks /\ DeckOf(drop_zone).t = "list"
         /\ Len(DeckOf(drop_zone).kv) > 0 /\ alive')
        => /\ chunks' = DeckOf(drop_zone)
           /\ NumChunks(chunks') = Len(Items(DeckOf(drop_zone)))
           /\ \A i \in 1..NumChunks(chunks') :
                 /\ Items(chunks')[i] = Items(DeckOf(drop_zone))[i]
                 /\ cards'[i].kernel_data = Items(DeckOf(drop_zone))[i]
           /\ Len(cards') = NumChunks(chunks')
           /\ current_chunk_index' = 0
           /\ status_label' =
                [msg |-> "Found N kernels - click COPY on each or use sequential copy",
                 n |-> NumChunks(chunks')] ]_vars

\* A mapping with `kernels` and the single-kernel signature has been parsed:
\* its one record is the one chunk.
C8_Witness ==
    /\ alive
    /\ drop_zone.kind = "json"
    /\ drop_zone.doc.t = "map"
    /\ Has(drop_zone.doc, "kernels")
    /\ HasSignature(drop_zone.doc)
    /\ chunks = Get(drop_zone.doc, "kernels")
    /\ NumChunks(chunks) = 1
    /\ Len(cards) = 1
    /\ status_label.n = 1

\* C9: process_chunks on a mapping without `kernels` segments it exactly when
\* it has id and one of emotional_arc, heat_signature, cubic_attractor: the
\* chunk sequence becomes its sections, 2 or more; any other such mapping is
\* rejected with "No kernels found in JSON", and the chunk sequence, the cursor
\* and the cards stay as they were.
C9_SignatureOrRejected ==
    [][ (process_chunks /\ MappingWithoutKernels(drop_zone))
        => IF HasSignature(drop_zone.doc)
           THEN /\ NumChunks(chunks') = Cardinality(Triggered(drop_zone.doc))
                /\ NumChunks(chunks') >= 2
                /\ \A i \in 1..NumChunks(chunks') : Has(Items(chunks')[i], "section")
                /\ current_chunk_index' = 0
                /\ alive' => status_label'.n = NumChunks(chunks')
           ELSE /\ status_label' = [msg |-> "No kernels found in JSON", n |-> 0]
                /\ UNCHANGED <<chunks, current_chunk_index, cards, clipboard, alive>> ]_vars

\* The mapping {id: k1, title: Solo} has been rejected while an earlier deck,
\* partly copied, is still there.
C9_Witness ==
    /\ drop_zone = json_dumps(Map(<< <<"id", Str("k1")>>, <<"title", Str("Solo")>> >>))
    /\ status_label.msg = "No kernels found in JSON"
    /\ NumChunks(chunks) = 2
    /\ current_chunk_index = 1
    /\ Len(cards) = 2

\* The sequential copies 0, 1, .., n-1, as copy_next_chunk logs them.
CopiesOf(c, n) ==
    [i \in 1..n |-> [index |-> i - 1, text |-> json_dumps(Items(c)[i])]]

\* C10: after a parse that gave N >= 1 chunks, the first N sequential copies
\* put chunks 0..N-1 on the clipboard in that order, once each, each marking
\* its card and moving the cursor by one; copy N+1 moves the cursor to 0 and
\* copies nothing; copy N+2 copies chunk 0 again.
C10_SequentialCopy ==
    (alive /\ NumChunks(chunks) >= 1 /\ presses < MaxPresses) =>
        LET N == NumChunks(chunks)
        IN  /\ presses <= N =>
                 /\ current_chunk_index = presses
                 /\ copy_log = CopiesOf(chunks, presses)
                 /\ \A i \in 1..presses : cards[i].is_copied
            /\ presses = N + 1 =>
                 /\ current_chunk_index = 0
                 /\ copy_log = CopiesOf(chunks, N)
            /\ presses = N + 2 =>
                 /\ current_chunk_index = 1
                 /\ copy_log = CopiesOf(chunks, N) \o CopiesOf(chunks, 1)
                 /\ cards[1].is_copied
                 /\ clipboard.kind = "json"

\* Two chunks have been copied, the cursor has been reset and chunk 0 has been
\* copied again.
C10_Witness ==
    /\ alive
    /\ NumChunks(chunks) = 2
    /\ presses = 4
    /\ Len(copy_log) = 3
    /\ copy_log[3].index = 0
    /\ current_chunk_index = 1

(***************************************************************************)
(* The cursor and the copy actions.                                        *)
(***************************************************************************)
\* C11: in every reachable state, whatever parses, clears, sequential copies,
\* card copies and file loads led to it, 0 <= current_chunk_index <=
\* len(chunks).
C11_CursorInRange ==
    /\ current_chunk_index >= 0
    /\ current_chunk_index <= NumChunks(chunks)

\* Both chunks of a deck have been copied, the cursor is at the end, and a
\* file has been loaded into the input area since.
C11_Witness ==
    /\ alive
    /\ NumChunks(chunks) = 2
    /\ current_chunk_index = 2
    /\ status_label.msg = "Loaded"
    /\ drop_zone /= json_dumps(chunks)

\* C12: copy_next_chunk with the cursor at the end (cursor = N) sets the cursor
\* to 0 and clears is_copied on every card, however it was marked, and leaves
\* the clipboard and the chunk sequence as they were.
C12_ExhaustedReset ==
    [][ (copy_next_chunk /\ current_chunk_index = NumChunks(chunks))
        => /\ current_chunk_index' = 0
           /\ Len(cards') = Len(cards)
           /\ \A i \in 1..Len(cards') :
                 /\ ~ cards'[i].is_copied
                 /\ cards'[i].kernel_data = cards[i].kernel_data
           /\ clipboard' = clipboard
           /\ chunks' = chunks ]_vars

\* Two chunks were copied in sequence, card 1 was then copied with its own
\* button (the clipboard holds chunk 0), and the third press has reset the
\* cursor and every card.
C12_Witness ==
    /\ alive
    /\ NumChunks(chunks) = 2
    /\ Len(cards) = 2
    /\ presses = 3
    /\ current_chunk_index = 0
    /\ status_label.msg = "Reset - ready to copy again"
    /\ clipboard = json_dumps(Items(chunks)[1])
    /\ \A i \in 1..2 : ~ cards[i].is_copied

(***************************************************************************)
(* The presentation of the cards, under StyleSpec.                         *)
(***************************************************************************)
\* C13: a card is shown greyed out only while it is marked copied: after the
\* start-over reset every card is shown in the uncopied style until it is
\* copied again, however the reset and the delayed (500 ms) grey-out callback
\* of an earlier copy interleave.
C13_GreyOnlyWhileCopied ==
    \A i \in 1..Len(cards) :
       ~ cards[i].is_copied => card_style[i] = "default"

(***************************************************************************)
(* Reparse, clear and the error returns.                                   *)
(***************************************************************************)
\* The step ends with the status of a successful parse: process_chunks ran to
\* its end.
Succeeded ==
    /\ alive'
    /\ status_label'.msg \in
         { "Split into N sections - copy sequentially for best results",
           "Found N kernels - click COPY on each or use sequential copy" }

\* The chunk sequence the text alone stands for: its list of records, or the
\* sections of its single record.
NewlyParsed(text) ==
    IF MappingWithoutKernels(text) THEN List(chunk_single_kernel(text.doc))
    ELSE DeckOf(text)

\* C14: after a successful process_chunks nothing of the previous parse is
\* left: the chunk sequence is the one of the new text, the cards are one per
\* new chunk in the same order, none is marked copied, and the cursor is 0,
\* whatever the chunk sequence, the cursor and the marks were before.
C14_NoResidue ==
    [][ (Succeeded /\ process_chunks)
        => /\ chunks' = NewlyParsed(drop_zone)
           /\ Len(cards') = NumChunks(chunks')
           /\ \A i \in 1..Len(cards') :
                 /\ cards'[i].kernel_data = Items(chunks')[i]
                 /\ cards'[i].chunk_num = i
                 /\ ~ cards'[i].is_copied
           /\ current_chunk_index' = 0 ]_vars

\* A deck of two records has just been parsed over an earlier parse: the
\* clipboard still holds a chunk of the earlier one, which is no chunk now.
C14_Witness ==
    /\ alive
    /\ status_label = [msg |-> "Found N kernels - click COPY on each or use sequential copy",
                       n |-> 2]
    /\ NumChunks(chunks) = 2
    /\ Len(cards) = 2
    /\ current_chunk_index = 0
    /\ \A i \in 1..2 : ~ cards[i].is_copied
    /\ clipboard.kind = "json"
    /\ \A i \in 1..2 : clipboard /= json_dumps(Items(chunks)[i])

\* The statuses of the early returns of process_chunks.
ErrorStatuses ==
    { "No input - paste or drop a kernel deck", "Invalid JSON",
      "No kernels found in JSON", "Unexpected JSON format", "No kernels found" }

\* The step ends with the process running and one of the error statuses shown.
Reported ==
    /\ alive'
    /\ status_label'.msg \in ErrorStatuses

\* C15 as stated: every clear_all and every process_chunks sets the cursor to
\* 0 and discards the chunk sequence that was there, cards included, from the
\* Ready and from the Exhausted state.
C15_Original ==
    [][ (clear_all \/ process_chunks)
        => /\ current_chunk_index' = 0
           /\ clear_all => chunks' = List(<<>>)
           /\ (process_chunks /\ Succeeded) => chunks' = NewlyParsed(drop_zone)
           /\ \A i \in 1..Len(cards') : ~ cards'[i].is_copied ]_vars

\* C15, amended: every clear_all sets the cursor to 0 and empties the chunk
\* sequence and the cards; every process_chunks that gets past its early
\* returns sets the cursor to 0 and replaces the chunk sequence by the one of
\* the input text, with fresh cards; a process_chunks that ends in one of its
\* error statuses leaves the cursor, the chunk sequence and the cards as they
\* were.
C15_ResetUnlessRejected ==
    [][ /\ clear_all => /\ current_chunk_index' = 0
                        /\ chunks' = List(<<>>)
                        /\ cards' = <<>>
        /\ process_chunks =>
             IF Reported
             THEN UNCHANGED <<chunks, current_chunk_index, cards>>
             ELSE /\ current_chunk_index' = 0
                  /\ chunks' = NewlyParsed(drop_zone)
                  /\ \A i \in 1..Len(cards') : ~ cards'[i].is_copied ]_vars

\* A text that is no JSON has been rejected in the Exhausted state: the two
\* chunks, the cursor at the end and the copied marks are still there.
C15_Witness ==
    /\ alive
    /\ status_label.msg = "Invalid JSON"
    /\ NumChunks(chunks) = 2
    /\ current_chunk_index = 2
    /\ \A i \in 1..2 : cards[i].is_copied

\* The inputs the claim names as errors of process_chunks: empty input, a
\* text that does not decode, an unrecognized shape, zero records.
ErrorInput(text) ==
    \/ text.kind \in {"blank", "malformed"}
    \/ /\ text.kind = "json"
       /\ \/ text.doc.t \notin {"map", "list"}
          \/ MappingWithoutKernels(text) /\ ~ HasSignature(text.doc)
          \/ ~ MappingWithoutKernels(text) /\ ~ Truthy(DeckOf(text))

\* A file load that fails: the one file chosen, or every local file dropped,
\* cannot be read.
FailedChoice(choice) ==
    choice /= <<>> /\ ~ choice[1].readable

FailedDrop(mime) ==
    /\ mime.hasUrls
    /\ \E i \in 1..Len(mime.urls) : mime.urls[i].local
    /\ \A i \in 1..Len(mime.urls) : ~ mime.urls[i].readable

\* C16: an action that ends in an error changes the status text only:
\* process_chunks on an error input shows one of its error statuses, a failed
\* load_file or file drop shows the error, and the chunk sequence, the cursor,
\* the cards with their copied marks, the clipboard, the button and the input
\* text are as before.
C16_ErrorLeavesState ==
    [][ /\ (ErrorInput(drop_zone) /\ process_chunks)
           => /\ status_label'.msg \in ErrorStatuses
              /\ UNCHANGED <<chunks, current_chunk_index, cards, clipboard,
                             copy_all_btn, drop_zone, alive>>
        /\ \A choice \in FileChoices :
              (FailedChoice(choice) /\ load_file_of(choice))
              => /\ status_label'.msg = "Error"
                 /\ UNCHANGED <<chunks, current_chunk_index, cards, clipboard,
                                copy_all_btn, drop_zone, alive>>
        /\ \A mime \in Drops :
              (FailedDrop(mime) /\ dropEvent_of(mime))
              => /\ status_label'.msg = "Error"
                 /\ UNCHANGED <<chunks, current_chunk_index, cards, clipboard,
                                copy_all_btn, drop_zone, alive>> ]_vars

\* A file load has failed while the first of two chunks was copied: status
\* "Error", the two chunks, the cursor at 1 and the mark of card 1 are there.
C16_Witness ==
    /\ alive
    /\ status_label.msg = "Error"
    /\ NumChunks(chunks) = 2
    /\ Len(cards) = 2
    /\ current_chunk_index = 1
    /\ cards[1].is_copied
    /\ ~ cards[2].is_copied

\* C17: on every input that decodes as JSON, process_chunks ends either in one
\* of its error statuses with the chunk state as before, or in a success with
\* one card per chunk; it never raises with the old cards removed and the
\* chunk sequence replaced.
C17_NoUnhandledException ==
    [][ (process_chunks /\ drop_zone.kind = "json")
        => /\ alive'
           /\ \/ Reported /\ UNCHANGED <<chunks, current_chunk_index, cards>>
              \/ Succeeded /\ Len(cards') = NumChunks(chunks') ]_vars

\* C18: the chunk sequence is immutable once computed: no copy action
\* (copy_next_chunk in either state, a card's COPY, the reset of the cards)
\* changes it; it changes only by a successful process_chunks, which replaces
\* it as a whole by the sequence of the input text, or by clear_all, which
\* empties it.
C18_ChunksImmutable ==
    [][ /\ (copy_next_chunk \/ copy_kernel) => chunks' = chunks
        /\ chunks' /= chunks
           => \/ process_chunks /\ Succeeded /\ chunks' = NewlyParsed(drop_zone)
              \/ clear_all /\ chunks' = List(<<>>) ]_vars

\* C19: whenever process_chunks takes the single-kernel branch (a mapping
\* without `kernels`, with id and one of emotional_arc, heat_signature,
\* cubic_attractor), the chunk sequence becomes 2 or more sections, the first
\* of them the header; the record itself is never the sole chunk, and the
\* status is the "Split into N sections" one.
C19_AlwaysSplit ==
    [][ (MappingWithoutKernels(drop_zone) /\ HasSignature(drop_zone.doc) /\ process_chunks)
        => /\ NumChunks(chunks') >= 2
           /\ Get(Items(chunks')[1], "section") = Str("header")
           /\ chunks' /= List(<<drop_zone.doc>>)
           /\ status_label' =
                [msg |-> "Split into N sections - copy sequentially for best results",
                 n |-> NumChunks(chunks')] ]_vars

\* Every card below the cursor is marked copied.
BelowCursorCopied ==
    \A i \in 1..current_chunk_index :
       i <= Len(cards) => cards[i].is_copied

====
